---- MODULE Spec2Model ----
(***************************************************************************)
(* Selections and the data join of D3, as the tutorials of this repository *)
(* use and describe them: a document of elements that carry __data__,      *)
(* selections (arrays of groups of elements, with nulls), selection.data   *)
(* (the join, by index or by key), enter.append and exit.remove.           *)
(***************************************************************************)
EXTENDS Integers, Sequences, FiniteSets, TLC

\* ---------------------------------------------------------------- bounds
\* Longest data array handed to selection.data.
MaxData == 2

\* Longest array of letters joined to the bars of the letters chart.
MaxLetters == 4

\* ------------------------------------------------------------- the document
\* The document element, parent of the groups of d3.select and d3.selectAll.
document == 0
\* A missing element of a group.
null == -1
\* The container elements (svg, body, section, tr) of the page.
Sections == {1, 2}
\* The elements that selections create and remove (circle, p, div, td).
Circles == {3, 4}
Elements == Sections \cup Circles

\* The tag an element answers to in a selector.
tagName(node) == IF node \in Sections THEN "section" ELSE "circle"

\* ------------------------------------------------------------------ data
Names == {"A", "B", "C"}
Frequencies == {1, 2}
\* An array element such as {name: "A", frequency: .08167}: every name with
\* the first frequency, and the first name with every frequency.
Letters == {d \in [name : Names, frequency : Frequencies] :
                d.name = "A" \/ d.frequency = 1}
\* The datum of an element that lacks the __data__ property.
undefined == [name |-> "undefined", frequency |-> 0]
\* The arrays of values selection.data is called with.
DataArrays == UNION {[1..k -> Letters] : k \in 0..MaxData}

\* Arrays with a hole: an undefined value among the letters.
SparseArrays ==
    {values \in UNION {[1..k -> Letters \cup {undefined}] : k \in 1..MaxData} :
        \E j \in DOMAIN values : values[j] = undefined}

\* The values selection.datum is called with.
DatumValues == {d \in Letters : d.name = "A" /\ d.frequency = 1}

\* function name(d) { return d.name; }
name(d) == d.name
\* d.name of an undefined d is a TypeError.
nameThrows(d) == d = undefined

VARIABLES
    childNodes,   \* element or document -> its children, in document order
    __data__,     \* element -> the datum bound to it (undefined when it has none)
    selection,    \* the selection a script holds: a sequence of groups
    enter,        \* the enter selection hanging off it (placeholders)
    exit,         \* the exit selection hanging off it
    joined,       \* the groups and data selection.data was last called on
    lastOp        \* the operation that produced this state, with its arguments

vars == <<childNodes, __data__, selection, enter, exit, joined, lastOp>>

\* ---------------------------------------------------------------- helpers
Range(s) == {s[i] : i \in DOMAIN s}

RECURSIVE Flatten(_)
Flatten(ss) == IF ss = <<>> THEN <<>> ELSE Head(ss) \o Flatten(Tail(ss))

\* The descendants of a node in document order.
RECURSIVE descendants(_, _)
descendants(kids, node) ==
    Flatten([i \in DOMAIN kids[node] |->
                <<kids[node][i]>> \o descendants(kids, kids[node][i])])

\* document.querySelectorAll / element.querySelectorAll
querySelectorAll(kids, node, tag) ==
    LET Matches(x) == tagName(x) = tag
    IN  SelectSeq(descendants(kids, node), Matches)

\* element.querySelector: the first match or null
querySelector(kids, node, tag) ==
    LET all == querySelectorAll(kids, node, tag)
    IN  IF all = <<>> THEN null ELSE all[1]

\* A group: a plain array of elements with a parentNode property.
Group(parent, nodes) == [parentNode |-> parent, nodes |-> nodes]

\* The elements of a selection, nulls skipped.
nodesOf(sel) == UNION {Range(sel[g].nodes) : g \in DOMAIN sel} \ {null}

noOp(op) == [op |-> op, data |-> <<>>, key |-> "none", threw |-> FALSE, again |-> FALSE]

\* --------------------------------------------------------------- the join
\* bindIndex without the test for a missing element: a null slot below n is
\* taken for an element.
bindIndexNoNullCheck(group, groupData) ==
    LET n == Len(group)
        m == Len(groupData)
    IN  [update |-> [j \in 1..m |-> IF j <= n THEN group[j] ELSE null],
         enter  |-> [j \in 1..m |-> IF j <= n THEN <<>> ELSE <<groupData[j]>>],
         exit   |-> [i \in 1..n |-> IF i > m THEN group[i] ELSE null]]

\* bindIndex with the leftover data numbered from the start of the array.
bindIndexEnterFromStart(group, groupData) ==
    LET n == Len(group)
        m == Len(groupData)
        paired(j) == j <= n /\ group[j] # null
    IN  [update |-> [j \in 1..m |-> IF paired(j) THEN group[j] ELSE null],
         enter  |-> [j \in 1..m |-> IF paired(j) THEN <<>>
                                    ELSE <<groupData[IF j > n THEN j - n ELSE j]>>],
         exit   |-> [i \in 1..n |-> IF i > m THEN group[i] ELSE null]]

\* bindIndex with the exit loop starting one element early.
bindIndexExitEarly(group, groupData) ==
    LET n == Len(group)
        m == Len(groupData)
        paired(j) == j <= n /\ group[j] # null
    IN  [update |-> [j \in 1..m |-> IF paired(j) THEN group[j] ELSE null],
         enter  |-> [j \in 1..m |-> IF paired(j) THEN <<>> ELSE <<groupData[j]>>],
         exit   |-> [i \in 1..n |-> IF i >= m THEN group[i] ELSE null]]

\* bindIndex with the pairing loop stopping one element early.
bindIndexPairsShort(group, groupData) ==
    LET n == Len(group)
        m == Len(groupData)
        paired(j) == j < n /\ group[j] # null
    IN  [update |-> [j \in 1..m |-> IF paired(j) THEN group[j] ELSE null],
         enter  |-> [j \in 1..m |-> IF paired(j) THEN <<>> ELSE <<groupData[j]>>],
         exit   |-> [i \in 1..n |-> IF i > m THEN group[i] ELSE null]]

\* bindIndex with the exit loop starting at the last paired element.
bindIndexExitFromLast(group, groupData) ==
    LET n == Len(group)
        m == Len(groupData)
        n0 == IF n < m THEN n ELSE m
        paired(j) == j <= n /\ group[j] # null
    IN  [update |-> [j \in 1..m |-> IF paired(j) THEN group[j] ELSE null],
         enter  |-> [j \in 1..m |-> IF paired(j) THEN <<>> ELSE <<groupData[j]>>],
         exit   |-> [i \in 1..n |-> IF i > m \/ (n < m /\ i >= n0) THEN group[i]
                                    ELSE null]]

\* bindIndex pairing the data with the last elements of the group: the first
\* n - m elements exit.
bindIndexUpdateFromEnd(group, groupData) ==
    LET n == Len(group)
        m == Len(groupData)
        shift == IF n > m THEN n - m ELSE 0
        at(j) == IF j + shift <= n THEN group[j + shift] ELSE null
    IN  [update |-> [j \in 1..m |-> at(j)],
         enter  |-> [j \in 1..m |-> IF at(j) = null THEN <<groupData[j]>> ELSE <<>>],
         exit   |-> [i \in 1..n |-> IF i <= shift THEN group[i] ELSE null]]

\* Join by index: the first datum and the first element have the key "0",
\* the second datum and element the key "1", and so on; a datum and an
\* element are paired when their keys are equal.
bindIndex(group, groupData) ==
    LET n == Len(group)
        m == Len(groupData)
        paired(j) == j <= n /\ group[j] # null
    IN  [update |-> [j \in 1..m |-> IF paired(j) THEN group[j] ELSE null],
         enter  |-> [j \in 1..m |-> IF paired(j) THEN <<>> ELSE <<groupData[j]>>],
         exit   |-> [i \in 1..n |-> IF i > m THEN group[i] ELSE null]]

\* The key of every element of the group, computed from its bound datum.
keyValues(group, data) ==
    [i \in DOMAIN group |-> IF group[i] = null THEN "" ELSE name(data[group[i]])]

\* The map from key to element: the index of the first element with the key.
nodeByKeyValue(group, data) ==
    LET keys == keyValues(group, data)
        elems == {i \in DOMAIN group : group[i] # null}
    IN  [k \in {keys[i] : i \in elems} |->
            CHOOSE i \in elems : keys[i] = k /\ \A h \in elems : keys[h] = k => i <= h]

\* Datum j finds an entry of the map that no earlier datum has consumed.
unconsumed(groupData, j, byKey) ==
    /\ name(groupData[j]) \in DOMAIN byKey
    /\ \A h \in 1..(j - 1) : name(groupData[h]) # name(groupData[j])

\* bindKey with the exit selection computed from the keys alone: an element
\* whose key occurs in the new data never exits.
bindKeyDropsDuplicates(group, groupData, data) ==
    LET n == Len(group)
        m == Len(groupData)
        byKey == nodeByKeyValue(group, data)
        matched(j) == unconsumed(groupData, j, byKey)
        nodeAt(j) == group[byKey[name(groupData[j])]]
        newKeys == {name(groupData[j]) : j \in 1..m}
    IN  [update |-> [j \in 1..m |-> IF matched(j) THEN nodeAt(j) ELSE null],
         enter  |-> [j \in 1..m |-> IF matched(j) THEN <<>> ELSE <<groupData[j]>>],
         exit   |-> [i \in 1..n |-> IF group[i] = null \/ name(data[group[i]]) \in newKeys
                                    THEN null ELSE group[i]]]

\* bindKey with no placeholder for a datum whose key is in the map, consumed
\* or not.
bindKeyDropsDatum(group, groupData, data) ==
    LET n == Len(group)
        m == Len(groupData)
        byKey == nodeByKeyValue(group, data)
        matched(j) == unconsumed(groupData, j, byKey)
        nodeAt(j) == group[byKey[name(groupData[j])]]
        kept == {nodeAt(j) : j \in {h \in 1..m : matched(h)}}
    IN  [update |-> [j \in 1..m |-> IF matched(j) THEN nodeAt(j) ELSE null],
         enter  |-> [j \in 1..m |-> IF name(groupData[j]) \in DOMAIN byKey THEN <<>>
                                    ELSE <<groupData[j]>>],
         exit   |-> [i \in 1..n |-> IF group[i] \in kept THEN null ELSE group[i]]]

\* bindKey with the update selection left in the order of the old selection.
bindKeyOldOrder(group, groupData, data) ==
    LET n == Len(group)
        m == Len(groupData)
        byKey == nodeByKeyValue(group, data)
        matched(j) == unconsumed(groupData, j, byKey)
        nodeAt(j) == group[byKey[name(groupData[j])]]
        kept == {nodeAt(j) : j \in {h \in 1..m : matched(h)}}
    IN  [update |-> [j \in 1..m |-> IF j <= n /\ group[j] \in kept THEN group[j] ELSE null],
         enter  |-> [j \in 1..m |-> IF j <= n /\ group[j] \in kept THEN <<>>
                                    ELSE <<groupData[j]>>],
         exit   |-> [i \in 1..n |-> IF group[i] \in kept THEN null ELSE group[i]]]

\* bindKey with the map from key to element holding the last element with
\* the key.
bindKeyLastWins(group, groupData, data) ==
    LET n == Len(group)
        m == Len(groupData)
        keys == keyValues(group, data)
        elems == {i \in DOMAIN group : group[i] # null}
        byKey == [k \in {keys[i] : i \in elems} |->
                    CHOOSE i \in elems : keys[i] = k /\ \A h \in elems : keys[h] = k => h <= i]
        matched(j) == unconsumed(groupData, j, byKey)
        nodeAt(j) == group[byKey[name(groupData[j])]]
        kept == {nodeAt(j) : j \in {h \in 1..m : matched(h)}}
    IN  [update |-> [j \in 1..m |-> IF matched(j) THEN nodeAt(j) ELSE null],
         enter  |-> [j \in 1..m |-> IF matched(j) THEN <<>> ELSE <<groupData[j]>>],
         exit   |-> [i \in 1..n |-> IF group[i] \in kept THEN null ELSE group[i]]]

\* bindKey with the element going to the last datum that has its key, the
\* earlier ones entering.
bindKeyLaterDatumWins(group, groupData, data) ==
    LET n == Len(group)
        m == Len(groupData)
        byKey == nodeByKeyValue(group, data)
        matched(j) == /\ name(groupData[j]) \in DOMAIN byKey
                      /\ \A h \in (j + 1)..m : name(groupData[h]) # name(groupData[j])
        nodeAt(j) == group[byKey[name(groupData[j])]]
        kept == {nodeAt(j) : j \in {h \in 1..m : matched(h)}}
    IN  [update |-> [j \in 1..m |-> IF matched(j) THEN nodeAt(j) ELSE null],
         enter  |-> [j \in 1..m |-> IF matched(j) THEN <<>> ELSE <<groupData[j]>>],
         exit   |-> [i \in 1..n |-> IF group[i] \in kept THEN null ELSE group[i]]]

\* bindKey with the entry of the map left in place when a datum takes it:
\* every datum with the key gets the element.
bindKeyNoConsume(group, groupData, data) ==
    LET n == Len(group)
        m == Len(groupData)
        byKey == nodeByKeyValue(group, data)
        matched(j) == name(groupData[j]) \in DOMAIN byKey
        nodeAt(j) == group[byKey[name(groupData[j])]]
        kept == {nodeAt(j) : j \in {h \in 1..m : matched(h)}}
    IN  [update |-> [j \in 1..m |-> IF matched(j) THEN nodeAt(j) ELSE null],
         enter  |-> [j \in 1..m |-> IF matched(j) THEN <<>> ELSE <<groupData[j]>>],
         exit   |-> [i \in 1..n |-> IF group[i] \in kept THEN null ELSE group[i]]]

\* Join by key: update and enter in the order of the new data, exit in the
\* order (and at the indexes) of the old selection.
bindKey(group, groupData, data) ==
    LET n == Len(group)
        m == Len(groupData)
        byKey == nodeByKeyValue(group, data)
        matched(j) == unconsumed(groupData, j, byKey)
        nodeAt(j) == group[byKey[name(groupData[j])]]
        kept == {nodeAt(j) : j \in {h \in 1..m : matched(h)}}
    IN  [update |-> [j \in 1..m |-> IF matched(j) THEN nodeAt(j) ELSE null],
         enter  |-> [j \in 1..m |-> IF matched(j) THEN <<>> ELSE <<groupData[j]>>],
         exit   |-> [i \in 1..n |-> IF group[i] \in kept THEN null ELSE group[i]]]

\* The join of one group: by key when a key function is given, else by index.
bind(group, groupData, key, data) ==
    IF key = "name" THEN bindKey(group, groupData, data)
    ELSE bindIndex(group, groupData)

\* keyThrows for a key function that returns a key whatever it is given.
keyThrowsNever(sel, values, key, data) == FALSE

\* The key function is called for each old element and each new datum: it
\* throws on an element that has no datum and on a datum that is undefined.
keyThrows(sel, values, key, data) ==
    /\ key = "name"
    /\ \/ \E x \in nodesOf(sel) : nameThrows(data[x])
       \/ \E j \in DOMAIN values : nameThrows(values[j])

\* rebind without the assignment node.__data__ = d.
rebindNothing(data, update, groupData) == data

\* New data replaces old data in the update selection.
rebind(data, update, groupData) ==
    [x \in DOMAIN data |->
        IF \E j \in DOMAIN update : update[j] = x
        THEN groupData[CHOOSE j \in DOMAIN update : update[j] = x]
        ELSE data[x]]

\* ------------------------------------------------------------------- state
noJoin == [groups |-> <<>>, data |-> <<>>]

\* The elements of the document.
attached(kids) == UNION {Range(kids[p]) : p \in DOMAIN kids}

\* The elements a script can still reach: those of the document and those of
\* the selections it holds.
reachable(kids, sel, ex) == attached(kids) \cup nodesOf(sel) \cup nodesOf(ex)

\* collect that keeps the datum of the selected elements only.
collectSelected(data, kids, sel, ex) ==
    [x \in DOMAIN data |->
        IF x \in nodesOf(sel) \cup nodesOf(ex) THEN data[x] ELSE undefined]

\* An element nothing refers to any more is garbage: its datum goes with it.
collect(data, kids, sel, ex) ==
    [x \in DOMAIN data |-> IF x \in reachable(kids, sel, ex) THEN data[x] ELSE undefined]

\* The circles a page has room for: every element that data can be bound to
\* and that is not a section.
circlesOf(data) == DOMAIN data \ Sections

\* The first count elements that document.createElement can hand out.
RECURSIVE createElements(_, _)
createElements(free, count) ==
    IF count = 0 \/ free = {} THEN <<>>
    ELSE LET x == CHOOSE y \in free : \A z \in free : y <= z
         IN  <<x>> \o createElements(free \ {x}, count - 1)

Init ==
    /\ \E k \in 0..Cardinality(Circles) :
         childNodes = [x \in {document} \cup Elements |->
                          IF x = document THEN <<1, 2>>
                          ELSE IF x = 1 THEN createElements(Circles, k)
                          ELSE <<>>]
    /\ __data__ = [x \in Elements |-> undefined]
    /\ selection = <<>>
    /\ enter = <<>>
    /\ exit = <<>>
    /\ joined = noJoin
    /\ lastOp = noOp("init")

\* The datum of every element of the group overwritten with the value at its
\* index, before the element is found to update or to exit.
rebindAll(data, group, groupData) ==
    [x \in DOMAIN data |->
        IF \E i \in DOMAIN group : group[i] = x
        THEN LET i == CHOOSE h \in DOMAIN group : group[h] = x
             IN  IF i <= Len(groupData) THEN groupData[i] ELSE undefined
        ELSE data[x]]

\* bindGroups binding by index to every element before it joins the group.
RECURSIVE bindGroupsRebindsAll(_, _, _, _)
bindGroupsRebindsAll(sel, values, key, data) ==
    IF sel = <<>> THEN [groups |-> <<>>, data |-> data]
    ELSE LET r == bind(Head(sel).nodes, values, key, data)
             bound == rebind(rebindAll(data, Head(sel).nodes, values), r.update, values)
             rest == bindGroupsRebindsAll(Tail(sel), values, key, bound)
         IN  [groups |-> <<r>> \o rest.groups, data |-> rest.data]

\* bindGroups with one map from key to element for the whole selection:
\* every group gets the join of all the elements.
bindGroupsOneMap(sel, values, key, data) ==
    LET all == Flatten([g \in DOMAIN sel |-> sel[g].nodes])
        r == bind(all, values, key, data)
    IN  [groups |-> [g \in DOMAIN sel |-> r], data |-> rebind(data, r.update, values)]

\* The join of every group of a selection to the same array of values,
\* group after group.
RECURSIVE bindGroups(_, _, _, _)
bindGroups(sel, values, key, data) ==
    IF sel = <<>> THEN [groups |-> <<>>, data |-> data]
    ELSE LET r == bind(Head(sel).nodes, values, key, data)
             rest == bindGroups(Tail(sel), values, key, rebind(data, r.update, values))
         IN  [groups |-> <<r>> \o rest.groups, data |-> rest.data]

\* The data a join leaves when a key function throws: the groups before the
\* first group in which it throws have been joined and their elements bound,
\* that group and the groups after it have not been touched.
RECURSIVE bindUntilThrow(_, _, _, _)
bindUntilThrow(sel, values, key, data) ==
    IF sel = <<>> \/ keyThrows(<<Head(sel)>>, values, key, data) THEN data
    ELSE bindUntilThrow(Tail(sel), values, key,
                        rebind(data, bind(Head(sel).nodes, values, key, data).update, values))

\* The operations that hand a script a selection to join.
Selectors == {"d3.selectAll", "selectAll", "select", "append"}

\* Join with selection.order built in: the elements of every update group
\* moved, in the order of the group, before the other children of their parent.
JoinOrders(old, values, key, again) ==
    LET parent(g) == old[g].parentNode
    IN  /\ old # <<>>
        /\ nodesOf(old) \cap Sections = {}
        /\ IF keyThrows(old, values, key, __data__)
           THEN /\ lastOp' = [op |-> "data", data |-> <<>>, key |-> key,
                              threw |-> TRUE, again |-> FALSE]
                /\ __data__' = bindUntilThrow(old, values, key, __data__)
                /\ UNCHANGED <<childNodes, selection, enter, exit, joined>>
           ELSE LET r == bindGroups(old, values, key, __data__)
                    moved(p) == UNION {Range(r.groups[g].update) \ {null} :
                                          g \in {h \in DOMAIN old : parent(h) = p}}
                    front(p) == LET Here(x) == x \in Range(childNodes[p])
                                IN  SelectSeq(Flatten([g \in DOMAIN old |->
                                        IF parent(g) = p THEN r.groups[g].update
                                        ELSE <<>>]), Here)
                    back(p) == LET Stays(x) == x \notin moved(p)
                               IN  SelectSeq(childNodes[p], Stays)
                IN  /\ selection' = [g \in DOMAIN old |-> Group(parent(g), r.groups[g].update)]
                    /\ enter' = [g \in DOMAIN old |-> Group(parent(g), r.groups[g].enter)]
                    /\ exit' = [g \in DOMAIN old |-> Group(parent(g), r.groups[g].exit)]
                    /\ __data__' = r.data
                    /\ joined' = [groups |-> old, data |-> __data__]
                    /\ lastOp' = [op |-> "data", data |-> values, key |-> key,
                                  threw |-> FALSE, again |-> again]
                    /\ childNodes' = [p \in DOMAIN childNodes |-> front(p) \o back(p)]

\* Join binding the elements of every group by index before it calls the
\* key function: a call that throws has overwritten their data.
JoinBindsFirst(old, values, key, again) ==
    LET parent(g) == old[g].parentNode
    IN  /\ old # <<>>
        /\ nodesOf(old) \cap Sections = {}
        /\ IF keyThrows(old, values, key, __data__)
           THEN /\ lastOp' = [op |-> "data", data |-> <<>>, key |-> key,
                              threw |-> TRUE, again |-> FALSE]
                /\ __data__' = bindGroups(old, values, "index", __data__).data
                /\ UNCHANGED <<childNodes, selection, enter, exit, joined>>
           ELSE LET r == bindGroups(old, values, key, __data__)
                IN  /\ selection' = [g \in DOMAIN old |-> Group(parent(g), r.groups[g].update)]
                    /\ enter' = [g \in DOMAIN old |-> Group(parent(g), r.groups[g].enter)]
                    /\ exit' = [g \in DOMAIN old |-> Group(parent(g), r.groups[g].exit)]
                    /\ __data__' = r.data
                    /\ joined' = [groups |-> old, data |-> __data__]
                    /\ lastOp' = [op |-> "data", data |-> values, key |-> key,
                                  threw |-> FALSE, again |-> again]
                    /\ UNCHANGED childNodes

\* The join of the selection old to the array values: the selection becomes
\* the update selection, with enter and exit hanging off it.  A key function
\* that throws ends the call.
Join(old, values, key, again) ==
    LET parent(g) == old[g].parentNode
    IN  /\ old # <<>>
        /\ nodesOf(old) \cap Sections = {}
        /\ IF keyThrows(old, values, key, __data__)
           THEN /\ lastOp' = [op |-> "data", data |-> <<>>, key |-> key,
                              threw |-> TRUE, again |-> FALSE]
                /\ __data__' = bindUntilThrow(old, values, key, __data__)
                /\ UNCHANGED <<childNodes, selection, enter, exit, joined>>
           ELSE LET r == bindGroups(old, values, key, __data__)
                IN  /\ selection' = [g \in DOMAIN old |-> Group(parent(g), r.groups[g].update)]
                    /\ enter' = [g \in DOMAIN old |-> Group(parent(g), r.groups[g].enter)]
                    /\ exit' = [g \in DOMAIN old |-> Group(parent(g), r.groups[g].exit)]
                    /\ __data__' = r.data
                    /\ joined' = [groups |-> old, data |-> __data__]
                    /\ lastOp' = [op |-> "data", data |-> values, key |-> key,
                                  threw |-> FALSE, again |-> again]
                    /\ UNCHANGED childNodes

\* var circle = selection.data(values, key), on a selection just built.
Data(values, key) ==
    /\ lastOp.op \in Selectors
    /\ Join(selection, values, key, FALSE)

\* circle.data(values, key); circle.data(values, key): the selection that was
\* joined is joined to the same array again.
DataAgain ==
    /\ lastOp.op = "data"
    /\ ~lastOp.threw
    /\ ~lastOp.again
    /\ Join(joined.groups, lastOp.data, lastOp.key, TRUE)

\* The array the data functions slice.
letters == <<[name |-> "B", frequency |-> 1], [name |-> "C", frequency |-> 1]>>

\* The data functions of the page:
\*   function(d) { return d ? [d] : []; }         the datum of the parent
\*   function(d, i) { return letters.slice(i); }  the letters from the group's index
DataFunctions == {"datum", "slice"}

\* value.call(group, d, i)
call(fn, d, i) ==
    IF fn = "datum" THEN (IF d = undefined THEN <<>> ELSE <<d>>)
    ELSE SubSeq(letters, i + 1, Len(letters))

\* group.parentNode.__data__; the document has none.
parentDatum(data, parent) == IF parent = document THEN undefined ELSE data[parent]

\* bindGroupsCall calling the data function for the first group only, and
\* joining the array it returned to every group.
RECURSIVE bindGroupsCallFirst(_, _, _, _)
bindGroupsCallFirst(sel, fn, data, i) ==
    IF sel = <<>> THEN [groups |-> <<>>, data |-> data, calls |-> <<>>]
    ELSE LET d == parentDatum(data, Head(sel).parentNode)
             values == call(fn, d, i)
             r == bindGroups(sel, values, "index", data)
         IN  [groups |-> r.groups, data |-> r.data,
              calls |-> <<[fn |-> fn, datum |-> d, index |-> i, values |-> values]>>]

\* The join of every group of a selection to the array the data function
\* returns for it, group after group: the function is passed the datum of
\* the group's parentNode and the group's index i.
RECURSIVE bindGroupsCall(_, _, _, _)
bindGroupsCall(sel, fn, data, i) ==
    IF sel = <<>> THEN [groups |-> <<>>, data |-> data, calls |-> <<>>]
    ELSE LET d == parentDatum(data, Head(sel).parentNode)
             values == call(fn, d, i)
             r == bind(Head(sel).nodes, values, "index", data)
             rest == bindGroupsCall(Tail(sel), fn, rebind(data, r.update, values), i + 1)
         IN  [groups |-> <<r>> \o rest.groups,
              data |-> rest.data,
              calls |-> <<[fn |-> fn, datum |-> d, index |-> i, values |-> values]>>
                        \o rest.calls]

\* var circle = selection.data(function(d, i) { ... }), on a selection just
\* built: every group is joined to the array the function returns for it.
DataFunction(fn) ==
    /\ lastOp.op \in Selectors
    /\ selection # <<>>
    /\ nodesOf(selection) \cap Sections = {}
    /\ \E r \in {bindGroupsCall(selection, fn, __data__, 0)} :
         /\ selection' = [g \in DOMAIN selection |->
                             Group(selection[g].parentNode, r.groups[g].update)]
         /\ enter' = [g \in DOMAIN selection |->
                         Group(selection[g].parentNode, r.groups[g].enter)]
         /\ exit' = [g \in DOMAIN selection |->
                        Group(selection[g].parentNode, r.groups[g].exit)]
         /\ __data__' = r.data
         /\ lastOp' = [op |-> "data.function", data |-> r.calls, key |-> "index",
                       threw |-> FALSE, again |-> FALSE]
    /\ joined' = [groups |-> selection, data |-> __data__]
    /\ UNCHANGED childNodes

\* The selection and the selections hanging off it after an operation that
\* returns a new plain selection.
Selected(sel, op) ==
    /\ selection' = sel
    /\ enter' = <<>>
    /\ exit' = <<>>
    /\ joined' = noJoin
    /\ lastOp' = noOp(op)

\* d3.select(tag): one group, of the first matching element of the document.
D3Select(tag) ==
    LET sel == <<Group(document, <<querySelector(childNodes, document, tag)>>)>>
    IN  /\ Selected(sel, "d3.select")
        /\ __data__' = collect(__data__, childNodes, sel, <<>>)
        /\ UNCHANGED childNodes

\* d3.selectAll(tag): one group, of every matching element of the document.
D3SelectAll(tag) ==
    LET sel == <<Group(document, querySelectorAll(childNodes, document, tag))>>
    IN  /\ Selected(sel, "d3.selectAll")
        /\ __data__' = collect(__data__, childNodes, sel, <<>>)
        /\ UNCHANGED childNodes

\* The elements of a selection in order, group after group, nulls skipped.
elementsOf(sel) ==
    LET IsElement(x) == x # null
    IN  SelectSeq(Flatten([g \in DOMAIN sel |-> sel[g].nodes]), IsElement)

\* selectAll with no group for an element that has no matching descendant.
SelectAllDropsEmpty(tag) ==
    /\ nodesOf(selection) # {}
    /\ nodesOf(selection) \subseteq Sections
    /\ LET olds == elementsOf(selection)
           HasMatch(x) == querySelectorAll(childNodes, x, tag) # <<>>
           found == SelectSeq(olds, HasMatch)
           sel == [g \in DOMAIN found |->
                     Group(found[g], querySelectorAll(childNodes, found[g], tag))]
       IN  /\ Selected(sel, "selectAll")
           /\ __data__' = collect(__data__, childNodes, sel, <<>>)
    /\ UNCHANGED childNodes

\* selectAll giving every group the first element of the old selection as
\* its parent.
SelectAllFirstParent(tag) ==
    /\ nodesOf(selection) # {}
    /\ nodesOf(selection) \subseteq Sections
    /\ LET olds == elementsOf(selection)
           sel == [g \in DOMAIN olds |->
                     Group(olds[1], querySelectorAll(childNodes, olds[g], tag))]
       IN  /\ Selected(sel, "selectAll")
           /\ __data__' = collect(__data__, childNodes, sel, <<>>)
    /\ UNCHANGED childNodes

\* selection.selectAll(tag): every element of the old selection becomes a
\* group of the new one, holding its matching descendants.
SelectAll(tag) ==
    /\ nodesOf(selection) # {}
    /\ nodesOf(selection) \subseteq Sections
    /\ LET olds == elementsOf(selection)
           sel == [g \in DOMAIN olds |->
                     Group(olds[g], querySelectorAll(childNodes, olds[g], tag))]
       IN  /\ Selected(sel, "selectAll")
           /\ __data__' = collect(__data__, childNodes, sel, <<>>)
    /\ UNCHANGED childNodes

\* inherit without the assignment subnode.__data__ = node.__data__.
inheritNothing(data, parent, child) == data[child]

\* The datum a child inherits from its parent, when the parent has one.
inherit(data, parent, child) ==
    IF data[parent] # undefined THEN data[parent] ELSE data[child]

\* select with the missing elements left out of the groups rather than
\* filled with null.
SelectSkipsMissing(tag) ==
    /\ \/ nodesOf(selection) # {} /\ nodesOf(selection) \subseteq Sections
       \/ lastOp.op = "select"
    /\ LET sub(x) == IF x = null THEN null ELSE querySelector(childNodes, x, tag)
           IsElement(x) == x # null
           sel == [g \in DOMAIN selection |->
                     Group(selection[g].parentNode,
                           SelectSeq([i \in DOMAIN selection[g].nodes |->
                                         sub(selection[g].nodes[i])], IsElement))]
           bound == [x \in DOMAIN __data__ |->
                       IF \E p \in nodesOf(selection) : sub(p) = x
                       THEN inherit(__data__, CHOOSE p \in nodesOf(selection) : sub(p) = x, x)
                       ELSE __data__[x]]
       IN  /\ Selected(sel, "select")
           /\ __data__' = collect(bound, childNodes, sel, <<>>)
    /\ UNCHANGED childNodes

\* selection.select(tag): one element (or null) for each element of the old
\* selection, in the same groups; the child inherits the parent's datum.
\* A script selects in a selection of sections, or in what select returned.
Select(tag) ==
    /\ \/ nodesOf(selection) # {} /\ nodesOf(selection) \subseteq Sections
       \/ lastOp.op = "select"
    /\ LET sub(x) == IF x = null THEN null ELSE querySelector(childNodes, x, tag)
           sel == [g \in DOMAIN selection |->
                     Group(selection[g].parentNode,
                           [i \in DOMAIN selection[g].nodes |-> sub(selection[g].nodes[i])])]
           bound == [x \in DOMAIN __data__ |->
                       IF \E p \in nodesOf(selection) : sub(p) = x
                       THEN inherit(__data__, CHOOSE p \in nodesOf(selection) : sub(p) = x, x)
                       ELSE __data__[x]]
       IN  /\ Selected(sel, "select")
           /\ __data__' = collect(bound, childNodes, sel, <<>>)
    /\ UNCHANGED childNodes

\* selection.append(tag): a new last child for each element of the selection,
\* in the same groups; the child inherits the parent's datum.
SelectionAppend ==
    /\ nodesOf(selection) # {}
    /\ nodesOf(selection) \subseteq Sections
    /\ LET olds == elementsOf(selection)
           free == circlesOf(__data__) \ reachable(childNodes, selection, exit)
           news == createElements(free, Len(olds))
           new(x) == news[CHOOSE k \in DOMAIN olds : olds[k] = x]
           sel == [g \in DOMAIN selection |->
                     Group(selection[g].parentNode,
                           [i \in DOMAIN selection[g].nodes |->
                               IF selection[g].nodes[i] = null THEN null
                               ELSE new(selection[g].nodes[i])])]
           kids == [p \in DOMAIN childNodes |->
                      IF p \in Range(olds) THEN Append(childNodes[p], new(p))
                      ELSE childNodes[p]]
           bound == [x \in DOMAIN __data__ |->
                       IF \E k \in DOMAIN news : news[k] = x
                       THEN inherit(__data__, olds[CHOOSE k \in DOMAIN news : news[k] = x], x)
                       ELSE __data__[x]]
       IN  /\ Len(news) = Len(olds)
           /\ childNodes' = kids
           /\ Selected(sel, "append")
           /\ __data__' = collect(bound, kids, sel, <<>>)

\* selection.insert(tag, ":first-child"): as append, the new element placed
\* before the first child of each element of the selection.
SelectionInsert ==
    /\ nodesOf(selection) # {}
    /\ nodesOf(selection) \subseteq Sections
    /\ LET olds == elementsOf(selection)
           free == circlesOf(__data__) \ reachable(childNodes, selection, exit)
           news == createElements(free, Len(olds))
           new(x) == news[CHOOSE k \in DOMAIN olds : olds[k] = x]
           sel == [g \in DOMAIN selection |->
                     Group(selection[g].parentNode,
                           [i \in DOMAIN selection[g].nodes |->
                               IF selection[g].nodes[i] = null THEN null
                               ELSE new(selection[g].nodes[i])])]
           kids == [p \in DOMAIN childNodes |->
                      IF p \in Range(olds) THEN <<new(p)>> \o childNodes[p]
                      ELSE childNodes[p]]
           bound == [x \in DOMAIN __data__ |->
                       IF \E k \in DOMAIN news : news[k] = x
                       THEN inherit(__data__, olds[CHOOSE k \in DOMAIN news : news[k] = x], x)
                       ELSE __data__[x]]
       IN  /\ Len(news) = Len(olds)
           /\ childNodes' = kids
           /\ Selected(sel, "insert")
           /\ __data__' = collect(bound, kids, sel, <<>>)

\* selection.datum(value): assigns the value to every element.
Datum(value) ==
    /\ nodesOf(selection) # {}
    /\ nodesOf(selection) \subseteq Sections
    /\ __data__' = [x \in DOMAIN __data__ |->
                      IF x \in nodesOf(selection) THEN value ELSE __data__[x]]
    /\ joined' = noJoin
    /\ lastOp' = noOp("datum")
    /\ UNCHANGED <<childNodes, selection, enter, exit>>

\* The slots of the enter selection that hold a placeholder, in order:
\* <<group, index>> pairs.
placeholders(ent) ==
    LET slots == Flatten([g \in DOMAIN ent |->
                            [j \in DOMAIN ent[g].nodes |-> <<g, j>>]])
        Holds(slot) == ent[slot[1]].nodes[slot[2]] # <<>>
    IN  SelectSeq(slots, Holds)

\* appendChildren with every new element appended to the parent of the
\* first group.
RECURSIVE appendChildrenFirstParent(_, _, _, _)
appendChildrenFirstParent(kids, ent, slots, news) ==
    IF slots = <<>> THEN kids
    ELSE LET parent == ent[1].parentNode
         IN  appendChildrenFirstParent([kids EXCEPT ![parent] = Append(@, Head(news))],
                                       ent, Tail(slots), Tail(news))

\* appendChildren with each new element placed before the children the
\* parent has.
RECURSIVE prependChildren(_, _, _, _)
prependChildren(kids, ent, slots, news) ==
    IF slots = <<>> THEN kids
    ELSE LET parent == ent[Head(slots)[1]].parentNode
         IN  prependChildren([kids EXCEPT ![parent] = <<Head(news)>> \o @],
                             ent, Tail(slots), Tail(news))

\* The children of a parent after the new elements of its group are appended.
RECURSIVE appendChildren(_, _, _, _)
appendChildren(kids, ent, slots, news) ==
    IF slots = <<>> THEN kids
    ELSE LET parent == ent[Head(slots)[1]].parentNode
         IN  appendChildren([kids EXCEPT ![parent] = Append(@, Head(news))],
                            ent, Tail(slots), Tail(news))

\* enter.append without its side effect on the update selection.
EnterAppendNoMerge ==
    /\ enter # <<>>
    /\ \A g \in DOMAIN enter : enter[g].parentNode \in Sections
    /\ LET slots == placeholders(enter)
           free == circlesOf(__data__) \ reachable(childNodes, selection, exit)
           news == createElements(free, Len(slots))
       IN  /\ slots # <<>>
           /\ Len(news) = Len(slots)
           /\ childNodes' = appendChildren(childNodes, enter, slots, news)
           /\ __data__' = [x \in DOMAIN __data__ |->
                             IF \E k \in DOMAIN news : news[k] = x
                             THEN LET slot == slots[CHOOSE k \in DOMAIN news : news[k] = x]
                                  IN  enter[slot[1]].nodes[slot[2]][1]
                             ELSE __data__[x]]
    /\ enter' = <<>>
    /\ joined' = noJoin
    /\ lastOp' = noOp("enter.append")
    /\ UNCHANGED <<selection, exit>>

\* enter.append(tag): an element for each placeholder, appended to the group's
\* parent and bound to the placeholder's datum; the new elements replace the
\* nulls of the update selection.
EnterAppend ==
    /\ enter # <<>>
    /\ \A g \in DOMAIN enter : enter[g].parentNode \in Sections
    /\ LET slots == placeholders(enter)
           free == circlesOf(__data__) \ reachable(childNodes, selection, exit)
           news == createElements(free, Len(slots))
           at(g, j) == CHOOSE k \in DOMAIN slots : slots[k] = <<g, j>>
           merged == [g \in DOMAIN selection |->
                        Group(selection[g].parentNode,
                              [j \in DOMAIN selection[g].nodes |->
                                  IF enter[g].nodes[j] # <<>> THEN news[at(g, j)]
                                  ELSE selection[g].nodes[j]])]
       IN  /\ slots # <<>>
           /\ Len(news) = Len(slots)
           /\ childNodes' = appendChildren(childNodes, enter, slots, news)
           /\ selection' = merged
           /\ __data__' = [x \in DOMAIN __data__ |->
                             IF \E k \in DOMAIN news : news[k] = x
                             THEN LET slot == slots[CHOOSE k \in DOMAIN news : news[k] = x]
                                  IN  enter[slot[1]].nodes[slot[2]][1]
                             ELSE __data__[x]]
    /\ enter' = <<>>
    /\ joined' = noJoin
    /\ lastOp' = noOp("enter.append")
    /\ UNCHANGED exit

\* parent.insertBefore(node, ref): node placed before ref among the children,
\* and last when ref is null.
insertBefore(children, node, ref) ==
    IF ref = null THEN Append(children, node)
    ELSE LET i == CHOOSE k \in DOMAIN children : children[k] = ref
         IN  SubSeq(children, 1, i - 1) \o <<node>> \o SubSeq(children, i, Len(children))

\* The element that follows the placeholder at index j in the update group:
\* the first element of the group at a higher index, or null.
nextSibling(upgroup, j) ==
    LET later == {k \in DOMAIN upgroup : k > j /\ upgroup[k] # null}
    IN  IF later = {} THEN null
        ELSE upgroup[CHOOSE k \in later : \A h \in later : k <= h]

\* The children of a parent after the new elements of its group are inserted,
\* each before the element that follows its placeholder in update.
RECURSIVE insertChildren(_, _, _, _, _)
insertChildren(kids, ent, upd, slots, news) ==
    IF slots = <<>> THEN kids
    ELSE LET g == Head(slots)[1]
             parent == ent[g].parentNode
             next == nextSibling(upd[g].nodes, Head(slots)[2])
             ref == IF next \in Range(kids[parent]) THEN next ELSE null
         IN  insertChildren([kids EXCEPT ![parent] = insertBefore(@, Head(news), ref)],
                            ent, upd, Tail(slots), Tail(news))

\* enter.insert placing each new element before the children the parent has.
EnterInsertFirst ==
    /\ enter # <<>>
    /\ \A g \in DOMAIN enter : enter[g].parentNode \in Sections
    /\ LET slots == placeholders(enter)
           free == circlesOf(__data__) \ reachable(childNodes, selection, exit)
           news == createElements(free, Len(slots))
           at(g, j) == CHOOSE k \in DOMAIN slots : slots[k] = <<g, j>>
           merged == [g \in DOMAIN selection |->
                        Group(selection[g].parentNode,
                              [j \in DOMAIN selection[g].nodes |->
                                  IF enter[g].nodes[j] # <<>> THEN news[at(g, j)]
                                  ELSE selection[g].nodes[j]])]
       IN  /\ slots # <<>>
           /\ Len(news) = Len(slots)
           /\ childNodes' = prependChildren(childNodes, enter, slots, news)
           /\ selection' = merged
           /\ __data__' = [x \in DOMAIN __data__ |->
                             IF \E k \in DOMAIN news : news[k] = x
                             THEN LET slot == slots[CHOOSE k \in DOMAIN news : news[k] = x]
                                  IN  enter[slot[1]].nodes[slot[2]][1]
                             ELSE __data__[x]]
    /\ enter' = <<>>
    /\ joined' = noJoin
    /\ lastOp' = noOp("enter.insert")
    /\ UNCHANGED exit

\* enter.insert(tag): as enter.append, each new element inserted before the
\* element that follows it in the update selection.
EnterInsert ==
    /\ enter # <<>>
    /\ \A g \in DOMAIN enter : enter[g].parentNode \in Sections
    /\ LET slots == placeholders(enter)
           free == circlesOf(__data__) \ reachable(childNodes, selection, exit)
           news == createElements(free, Len(slots))
           at(g, j) == CHOOSE k \in DOMAIN slots : slots[k] = <<g, j>>
           merged == [g \in DOMAIN selection |->
                        Group(selection[g].parentNode,
                              [j \in DOMAIN selection[g].nodes |->
                                  IF enter[g].nodes[j] # <<>> THEN news[at(g, j)]
                                  ELSE selection[g].nodes[j]])]
       IN  /\ slots # <<>>
           /\ Len(news) = Len(slots)
           /\ childNodes' = insertChildren(childNodes, enter, selection, slots, news)
           /\ selection' = merged
           /\ __data__' = [x \in DOMAIN __data__ |->
                             IF \E k \in DOMAIN news : news[k] = x
                             THEN LET slot == slots[CHOOSE k \in DOMAIN news : news[k] = x]
                                  IN  enter[slot[1]].nodes[slot[2]][1]
                             ELSE __data__[x]]
    /\ enter' = <<>>
    /\ joined' = noJoin
    /\ lastOp' = noOp("enter.insert")
    /\ UNCHANGED exit

\* without that leaves every element where it is.
withoutNone(s, gone) == s

\* The sequence s without the elements of the set gone.
without(s, gone) ==
    LET Stays(x) == x \notin gone
    IN  SelectSeq(s, Stays)

\* The data without that of the removed elements.
discard(data, gone) ==
    [x \in DOMAIN data |-> IF x \in gone THEN undefined ELSE data[x]]

\* exit.remove(): removes every element of the exit selection from the
\* document; the removed elements go, and their data with them.
ExitRemove ==
    /\ nodesOf(exit) # {}
    /\ LET kids == [p \in DOMAIN childNodes |-> without(childNodes[p], nodesOf(exit))]
       IN  /\ childNodes' = kids
           /\ __data__' = collect(discard(__data__, nodesOf(exit)), kids, selection, <<>>)
    /\ exit' = <<>>
    /\ joined' = noJoin
    /\ lastOp' = noOp("exit.remove")
    /\ UNCHANGED <<selection, enter>>

Next ==
    \/ D3Select("section")
    \/ \E tag \in {"section", "circle"} : D3SelectAll(tag)
    \/ SelectAll("circle")
    \/ Select("circle")
    \/ SelectionAppend
    \/ SelectionInsert
    \/ \E value \in DatumValues : Datum(value)
    \/ \E values \in DataArrays, key \in {"index", "name"} : Data(values, key)
    \/ \E values \in SparseArrays : Data(values, "name")
    \/ DataAgain
    \/ \E fn \in DataFunctions : DataFunction(fn)
    \/ EnterAppend
    \/ EnterInsert
    \/ ExitRemove

Spec == Init /\ [][Next]_vars

\* ------------------------------------------------------- the letters chart
\* The bars of a chart of letters: two on the page, two more to create.
Bars == {3, 4, 5, 6}
\* The letters of the chart: those of the page and one more name.
ChartLetters == Letters \cup {[name |-> "D", frequency |-> 1]}
\* The arrays of letters the bars are joined to.
LetterArrays == UNION {[1..k -> ChartLetters] : k \in 0..MaxLetters}

\* A chart of two bars in the first section, each bound to a letter by an
\* earlier join, selected with d3.select("section").selectAll("circle").
InitChart ==
    /\ childNodes = [x \in {document} \cup Sections \cup Bars |->
                        IF x = document THEN <<1, 2>>
                        ELSE IF x = 1 THEN <<3, 4>>
                        ELSE <<>>]
    /\ \E first, second \in Letters :
         __data__ = [x \in Sections \cup Bars |->
                        IF x = 3 THEN first
                        ELSE IF x = 4 THEN second
                        ELSE undefined]
    /\ selection = <<Group(1, <<3, 4>>)>>
    /\ enter = <<>>
    /\ exit = <<>>
    /\ joined = noJoin
    /\ lastOp = noOp("selectAll")

\* The transition of the chart to new letters: the join, then enter.append or
\* enter.insert, and exit.remove.
NextChart ==
    \/ \E values \in LetterArrays, key \in {"index", "name"} : Data(values, key)
    \/ EnterAppend
    \/ EnterInsert
    \/ ExitRemove

SpecChart == InitChart /\ [][NextChart]_vars

\* ----------------------------------------------------- the update pattern
\* The number of circles on the page before the first update.
MaxCircles == 3

\* The letters of the updates: two that share a name and one that is alone.
UpdateLetters == {d \in Letters : name(d) \in {"A", "B"}}
\* The arrays of letters an update brings.
UpdateArrays == UNION {[1..k -> UpdateLetters] : k \in 0..MaxLetters}

\* A page whose first section holds up to MaxCircles circles, bound to
\* nothing yet; the page has room for as many circles as the chart has bars.
InitUpdate ==
    /\ \E k \in 0..MaxCircles :
         childNodes = [x \in {document} \cup Sections \cup Bars |->
                          IF x = document THEN <<1, 2>>
                          ELSE IF x = 1 THEN createElements(Bars, k)
                          ELSE <<>>]
    /\ __data__ = [x \in Sections \cup Bars |-> undefined]
    /\ selection = <<>>
    /\ enter = <<>>
    /\ exit = <<>>
    /\ joined = noJoin
    /\ lastOp = noOp("init")

\* update with exit.remove() left out.
updateKeepsExit(kids, data, values, key) ==
    LET svg == querySelector(kids, document, "section")
        old == <<Group(svg, querySelectorAll(kids, svg, "circle"))>>
        r == bindGroups(old, values, key, data)
        ent == <<Group(svg, r.groups[1].enter)>>
        slots == placeholders(ent)
        news == createElements(circlesOf(data) \ attached(kids), Len(slots))
        created == [k \in 1..Len(news) |-> slots[k][2]]
        index(x) == CHOOSE k \in DOMAIN news : news[k] = x
    IN  [old        |-> old,
         created    |-> Len(news) = Len(slots),
         childNodes |-> appendChildren(kids, ent, SubSeq(slots, 1, Len(news)), news),
         selection  |-> <<Group(svg, [j \in DOMAIN values |->
                                        IF \E k \in DOMAIN created : created[k] = j
                                        THEN news[CHOOSE k \in DOMAIN created : created[k] = j]
                                        ELSE r.groups[1].update[j]])>>,
         __data__   |-> [x \in DOMAIN data |->
                           IF x \in Range(news) THEN values[created[index(x)]]
                           ELSE r.data[x]]]

\* The general update pattern on the circles of the first section:
\*   var circle = svg.selectAll("circle").data(values, key);
\*   circle.exit().remove();
\*   circle.enter().append("circle");
\* with svg = d3.select("section"): the page, the data and the selection
\* circle it leaves, and whether the page had room for the new circles.
update(kids, data, values, key) ==
    LET svg == querySelector(kids, document, "section")
        old == <<Group(svg, querySelectorAll(kids, svg, "circle"))>>
        r == bindGroups(old, values, key, data)
        gone == Range(r.groups[1].exit) \ {null}
        left == [p \in DOMAIN kids |-> without(kids[p], gone)]
        kept == discard(r.data, gone)
        ent == <<Group(svg, r.groups[1].enter)>>
        slots == placeholders(ent)
        news == createElements(circlesOf(data) \ attached(left), Len(slots))
        created == [k \in 1..Len(news) |-> slots[k][2]]
        index(x) == CHOOSE k \in DOMAIN news : news[k] = x
    IN  [old        |-> old,
         created    |-> Len(news) = Len(slots),
         childNodes |-> appendChildren(left, ent, SubSeq(slots, 1, Len(news)), news),
         selection  |-> <<Group(svg, [j \in DOMAIN values |->
                                        IF \E k \in DOMAIN created : created[k] = j
                                        THEN news[CHOOSE k \in DOMAIN created : created[k] = j]
                                        ELSE r.groups[1].update[j]])>>,
         __data__   |-> [x \in DOMAIN data |->
                           IF x \in Range(news) THEN values[created[index(x)]]
                           ELSE kept[x]]]

\* A run of the update pattern on new data, as one handler.  A key function
\* that throws ends it at the join.
Update(values, key) ==
    IF keyThrows(update(childNodes, __data__, <<>>, "index").old, values, key, __data__)
    THEN /\ lastOp' = [op |-> "update", data |-> <<>>, key |-> key,
                       threw |-> TRUE, again |-> FALSE]
         /\ UNCHANGED <<childNodes, __data__, selection, enter, exit, joined>>
    ELSE \E u \in {update(childNodes, __data__, values, key)} :
             /\ u.created
             /\ childNodes' = u.childNodes
             /\ __data__' = u.__data__
             /\ selection' = u.selection
             /\ enter' = <<>>
             /\ exit' = <<>>
             /\ joined' = noJoin
             /\ lastOp' = [op |-> "update", data |-> values, key |-> key,
                           threw |-> FALSE, again |-> FALSE]

\* An update brings no more letters than the page has room for circles.
NextUpdate ==
    \E values \in {v \in UpdateArrays : Len(v) <= Cardinality(Bars)},
       key \in {"index", "name"} : Update(values, key)

SpecUpdate == InitUpdate /\ [][NextUpdate]_vars

\* ------------------------------------------------------------ properties
\* The state right after a call of selection.data that returned.
Joined == lastOp.op = "data" /\ ~lastOp.threw
\* The groups that were joined, and the array they were joined to.
Groups == DOMAIN joined.groups
newData == lastOp.data
\* The old elements of group g, and its update, enter and exit results.
oldNodes(g) == joined.groups[g].nodes
updateNodes(g) == selection[g].nodes
enterNodes(g) == enter[g].nodes
exitNodes(g) == exit[g].nodes
\* The indexes of a sequence of elements that hold an element, the indexes of
\* an enter group that hold a placeholder.
filled(s) == {j \in DOMAIN s : s[j] # null}
placed(s) == {j \in DOMAIN s : s[j] # <<>>}
\* The elements of a sequence in order, nulls left out.
compact(s) == LET IsElement(x) == x # null IN SelectSeq(s, IsElement)
\* How often x occurs in s.
occurrences(s, x) == Cardinality({j \in DOMAIN s : s[j] = x})
\* The key an element had before the join.
oldKey(x) == name(joined.data[x])

\* C1: after every join, of every group, the filled update slots and the
\* enter placeholders together number newData.length, and every old element
\* of the group occurs exactly once in update and exit taken together.
C1_Partition ==
    Joined => \A g \in Groups :
        /\ Cardinality(filled(updateNodes(g))) + Cardinality(placed(enterNodes(g)))
             = Len(newData)
        /\ \A x \in Range(oldNodes(g)) \ {null} :
             occurrences(updateNodes(g), x) + occurrences(exitNodes(g), x) = 1

\* A join by key of elements that share a key to data that share a key, which
\* fills all three selections.
C1_Witness ==
    /\ Joined
    /\ lastOp.key = "name"
    /\ \E g \in Groups :
         /\ \E x, y \in Range(oldNodes(g)) \ {null} : x # y /\ oldKey(x) = oldKey(y)
         /\ \E j, h \in 1..Len(newData) : j # h /\ name(newData[j]) = name(newData[h])
         /\ filled(updateNodes(g)) # {}
         /\ placed(enterNodes(g)) # {}
         /\ filled(exitNodes(g)) # {}

\* C2: after every join, the update and enter groups both have the length of
\* the new data, and at every position exactly one of them is filled: an
\* element in update or a placeholder (holding that position's datum) in enter.
C2_ParallelSlots ==
    Joined => \A g \in Groups :
        /\ Len(updateNodes(g)) = Len(newData)
        /\ Len(enterNodes(g)) = Len(newData)
        /\ \A j \in 1..Len(newData) :
             /\ (updateNodes(g)[j] # null) # (enterNodes(g)[j] # <<>>)
             /\ enterNodes(g)[j] \in {<<>>, <<newData[j]>>}

\* A join to two data with one slot of each kind.
C2_Witness ==
    /\ Joined
    /\ Len(newData) = 2
    /\ \E g \in Groups :
         /\ filled(updateNodes(g)) # {}
         /\ placed(enterNodes(g)) # {}

\* The keys of the old elements of group g are unique, and so are the keys
\* of the new data.
UniqueKeys(g) ==
    /\ \A x, y \in Range(oldNodes(g)) \ {null} : oldKey(x) = oldKey(y) => x = y
    /\ \A j, h \in 1..Len(newData) : name(newData[j]) = name(newData[h]) => j = h

\* C3: a join by key with unique old keys and unique new keys puts, at the
\* position of every datum, the old element with the datum's key in update if
\* there is one and else a placeholder for the datum in enter; exit holds the
\* old elements whose key is not in the new data, in their old order.
C3_KeyedJoin ==
    Joined /\ lastOp.key = "name" => \A g \in Groups : UniqueKeys(g) =>
        LET olds == Range(oldNodes(g)) \ {null}
            newKeys == {name(newData[j]) : j \in 1..Len(newData)}
            Leaves(x) == x # null /\ oldKey(x) \notin newKeys
        IN  /\ \A j \in 1..Len(newData) :
                 IF \E x \in olds : oldKey(x) = name(newData[j])
                 THEN /\ updateNodes(g)[j] \in olds
                      /\ oldKey(updateNodes(g)[j]) = name(newData[j])
                      /\ enterNodes(g)[j] = <<>>
                 ELSE /\ updateNodes(g)[j] = null
                      /\ enterNodes(g)[j] = <<newData[j]>>
            /\ compact(exitNodes(g)) = SelectSeq(oldNodes(g), Leaves)

\* Old elements keyed A, B joined by key to C, A: A updates at the second
\* position, C enters at the first, B exits.
C3_Witness ==
    /\ Joined
    /\ lastOp.key = "name"
    /\ \E g \in Groups :
         /\ UniqueKeys(g)
         /\ Len(oldNodes(g)) = 2
         /\ null \notin Range(oldNodes(g))
         /\ updateNodes(g) = <<null, oldNodes(g)[1]>>
         /\ placed(enterNodes(g)) = {1}
         /\ compact(exitNodes(g)) = <<oldNodes(g)[2]>>

\* Group g was a group of n elements, no slot of it null.
AllElements(g) == null \notin Range(oldNodes(g))

\* C4: a join by index of n elements to m > n data binds the first n data to
\* the n elements in order, puts a placeholder for each further datum in
\* enter at the datum's index, and leaves exit empty.
C4_SizeGrowth ==
    Joined /\ lastOp.key = "index" => \A g \in Groups :
        AllElements(g) /\ Len(newData) > Len(oldNodes(g)) =>
            /\ Len(updateNodes(g)) = Len(newData)
            /\ \A i \in 1..Len(oldNodes(g)) :
                 /\ updateNodes(g)[i] = oldNodes(g)[i]
                 /\ __data__[oldNodes(g)[i]] = newData[i]
                 /\ enterNodes(g)[i] = <<>>
            /\ \A j \in (Len(oldNodes(g)) + 1)..Len(newData) :
                 /\ updateNodes(g)[j] = null
                 /\ enterNodes(g)[j] = <<newData[j]>>
            /\ filled(exitNodes(g)) = {}

\* One element joined by index to two data.
C4_Witness ==
    /\ Joined
    /\ lastOp.key = "index"
    /\ \E g \in Groups :
         /\ AllElements(g)
         /\ Len(oldNodes(g)) = 1
         /\ Len(newData) = 2

\* C5: a join by index of n elements to m < n data binds the first m elements
\* to the m data in order, leaves enter empty, and puts the other elements in
\* exit, at their indexes and so in their old order.
C5_SizeShrink ==
    Joined /\ lastOp.key = "index" => \A g \in Groups :
        AllElements(g) /\ Len(newData) < Len(oldNodes(g)) =>
            /\ updateNodes(g) = SubSeq(oldNodes(g), 1, Len(newData))
            /\ \A j \in 1..Len(newData) : __data__[oldNodes(g)[j]] = newData[j]
            /\ placed(enterNodes(g)) = {}
            /\ compact(exitNodes(g))
                 = SubSeq(oldNodes(g), Len(newData) + 1, Len(oldNodes(g)))

\* Two elements joined by index to one datum.
C5_Witness ==
    /\ Joined
    /\ lastOp.key = "index"
    /\ \E g \in Groups :
         /\ AllElements(g)
         /\ Len(oldNodes(g)) = 2
         /\ Len(newData) = 1

\* C6: after a join, the element at position j of update is bound to
\* newData[j], and in a join by key the datum it was bound to before has the
\* key of newData[j].
C6_UpdateBound ==
    Joined => \A g \in Groups : \A j \in filled(updateNodes(g)) :
        /\ __data__[updateNodes(g)[j]] = newData[j]
        /\ lastOp.key = "name" => oldKey(updateNodes(g)[j]) = name(newData[j])

\* A join by key that replaces the datum of an element by another datum with
\* the same key.
C6_Witness ==
    /\ Joined
    /\ lastOp.key = "name"
    /\ \E g \in Groups : \E j \in filled(updateNodes(g)) :
         joined.data[updateNodes(g)[j]] # newData[j]

\* C7: a join leaves the datum of every element of exit as it was.
C7_ExitKeepsDatum ==
    Joined => \A g \in Groups : \A i \in filled(exitNodes(g)) :
        __data__[exitNodes(g)[i]] = joined.data[exitNodes(g)[i]]

\* A join that rebinds an element and sends another, bound to a datum, to
\* exit.
C7_Witness ==
    /\ Joined
    /\ \E g \in Groups :
         /\ \E i \in filled(exitNodes(g)) : joined.data[exitNodes(g)[i]] # undefined
         /\ \E j \in filled(updateNodes(g)) :
              joined.data[updateNodes(g)[j]] # newData[j]

\* C8: an array joined by index to a group of as many elements and joined
\* again to it at once puts every element in update, leaves enter and exit
\* empty, and leaves every bound datum as the first join left it.
C8_PositionalIdentity ==
    Joined /\ lastOp.again /\ lastOp.key = "index" => \A g \in Groups :
        AllElements(g) /\ Len(oldNodes(g)) = Len(newData) =>
            /\ updateNodes(g) = oldNodes(g)
            /\ placed(enterNodes(g)) = {}
            /\ filled(exitNodes(g)) = {}
            /\ \A x \in Range(oldNodes(g)) : __data__[x] = joined.data[x]

\* Two data joined twice by index to two elements.
C8_Witness ==
    /\ Joined
    /\ lastOp.again
    /\ lastOp.key = "index"
    /\ \E g \in Groups :
         /\ AllElements(g)
         /\ Len(oldNodes(g)) = 2
         /\ Len(newData) = 2

C10_EmptyGroupAllEnter ==
    Joined => \A g \in Groups : filled(oldNodes(g)) = {} =>
        /\ enterNodes(g) = [j \in 1..Len(newData) |-> <<newData[j]>>]
        /\ filled(updateNodes(g)) = {}
        /\ filled(exitNodes(g)) = {}

\* Two data joined by key to a group without elements.
C10_Witness ==
    /\ Joined
    /\ lastOp.key = "name"
    /\ Len(newData) = 2
    /\ \E g \in Groups : filled(oldNodes(g)) = {}

\* C11: every group is joined on its own.  The elements in the update and
\* exit groups of group g are old elements of group g; in a join by index the
\* element at a position of update is the old element at that position of
\* the same group; in a join by key an old element of group g exits exactly
\* when no datum has its key or an earlier element of group g has it, and a
\* datum enters exactly when no element of group g has its key or an earlier
\* datum has it, whatever the keys of the elements of the other groups.
C11_GroupsIndependent ==
    Joined => \A g \in Groups :
        LET olds == Range(oldNodes(g)) \ {null}
            first(i) == \A h \in filled(oldNodes(g)) :
                            oldKey(oldNodes(g)[h]) = oldKey(oldNodes(g)[i]) => i <= h
            newKeys == {name(newData[j]) : j \in 1..Len(newData)}
        IN  /\ Range(updateNodes(g)) \ {null} \subseteq olds
            /\ Range(exitNodes(g)) \ {null} \subseteq olds
            /\ lastOp.key = "index" =>
                 \A j \in filled(updateNodes(g)) : updateNodes(g)[j] = oldNodes(g)[j]
            /\ lastOp.key = "name" =>
                 /\ \A i \in filled(oldNodes(g)) :
                      (oldNodes(g)[i] \in Range(exitNodes(g)))
                        <=> (oldKey(oldNodes(g)[i]) \notin newKeys \/ ~first(i))
                 /\ \A j \in 1..Len(newData) :
                      (enterNodes(g)[j] # <<>>)
                        <=> \/ \A x \in olds : oldKey(x) # name(newData[j])
                            \/ \E h \in 1..(j - 1) : name(newData[h]) = name(newData[j])

\* A join by key of two groups that each hold an element with the same key:
\* both elements update, each in its own group.
C11_Witness ==
    /\ Joined
    /\ lastOp.key = "name"
    /\ Len(joined.groups) = 2
    /\ \E x \in Range(oldNodes(1)) \ {null}, y \in Range(oldNodes(2)) \ {null} :
         /\ x # y
         /\ oldKey(x) = oldKey(y)
         /\ x \in Range(updateNodes(1))
         /\ y \in Range(updateNodes(2))

\* C12: selection.selectAll on a selection of n elements returns n groups;
\* the parent of the i-th group is the i-th element of the old selection and
\* the group holds that element's matching descendants, none included: an
\* element without a matching descendant gives an empty group.
C12_SelectAllGroups ==
    [][lastOp'.op = "selectAll" =>
          LET olds == elementsOf(selection)
          IN  /\ Len(selection') = Len(olds)
              /\ \A i \in 1..Len(olds) :
                   /\ selection'[i].parentNode = olds[i]
                   /\ Range(selection'[i].nodes)
                        = {x \in Range(childNodes[olds[i]]) : tagName(x) = "circle"}
                   /\ Len(selection'[i].nodes)
                        = Cardinality(Range(selection'[i].nodes))]_vars

\* d3.selectAll("section").selectAll("circle") in a document whose first
\* section holds circles and whose second holds none: two groups, the second
\* empty.
C12_Witness ==
    /\ lastOp.op = "selectAll"
    /\ Len(selection) = 2
    /\ selection[1].parentNode = 1
    /\ selection[1].nodes # <<>>
    /\ selection[2].parentNode = 2
    /\ selection[2].nodes = <<>>

\* C13: selection.select returns a selection of the same shape: as many
\* groups, each with the parentNode and the length of the old group; the slot
\* at an index holds the first matching descendant of the old element at
\* that index, and null when the old slot is null or the old element has no
\* matching descendant.
C13_SelectKeepsShape ==
    [][lastOp'.op = "select" =>
          /\ Len(selection') = Len(selection)
          /\ \A g \in DOMAIN selection :
               /\ selection'[g].parentNode = selection[g].parentNode
               /\ Len(selection'[g].nodes) = Len(selection[g].nodes)
               /\ \A i \in DOMAIN selection[g].nodes :
                    LET old == selection[g].nodes[i]
                        new == selection'[g].nodes[i]
                        circles == IF old = null THEN <<>>
                                   ELSE LET IsCircle(x) == tagName(x) = "circle"
                                        IN  SelectSeq(childNodes[old], IsCircle)
                    IN  new = IF circles = <<>> THEN null ELSE circles[1]]_vars

\* d3.selectAll("section").select("circle") where only the first section
\* holds a circle: one group of two slots, the second null.
C13_Witness ==
    /\ lastOp.op = "select"
    /\ Len(selection) = 1
    /\ Len(selection[1].nodes) = 2
    /\ selection[1].nodes[1] \in Circles
    /\ selection[1].nodes[2] = null

\* C14: select, append and insert hand the datum of an element that has one
\* to the child selected or created through it, and selectAll leaves the
\* datum of every element it finds as it was.
C14_DataPropagation ==
    [][
        /\ lastOp'.op \in {"select", "append", "insert"} =>
            (\A g \in DOMAIN selection : \A i \in DOMAIN selection[g].nodes :
                LET parent == selection[g].nodes[i]
                    child == selection'[g].nodes[i]
                IN  (parent # null /\ child # null /\ __data__[parent] # undefined)
                        => (__data__'[child] = __data__[parent]))
        /\ lastOp'.op = "selectAll" =>
            (\A x \in nodesOf(selection') : __data__'[x] = __data__[x])
      ]_vars

\* d3.select("section").datum(value).append("circle"): the new circle is
\* bound to the datum of the section it was appended to.
C14_Witness ==
    /\ lastOp.op = "append"
    /\ \E c \in nodesOf(selection) : \E p \in Sections :
         /\ childNodes[p] # <<>>
         /\ c = childNodes[p][Len(childNodes[p])]
         /\ __data__[p] \in DatumValues
         /\ __data__[c] = __data__[p]

\* C15: enter.append (and enter.insert) puts the element it creates for a
\* placeholder in the slot of the update selection at the placeholder's
\* position.  After it
\* every slot of update holds an element: the slots that held one hold the
\* same one, and each slot that was null holds an element that is new to
\* the document, a different one in each slot.
C15_EnterMergesIntoUpdate ==
    [][lastOp'.op \in {"enter.append", "enter.insert"} =>
          /\ DOMAIN selection' = DOMAIN selection
          /\ \A g \in DOMAIN selection :
               /\ selection'[g].parentNode = selection[g].parentNode
               /\ DOMAIN selection'[g].nodes = DOMAIN selection[g].nodes
               /\ \A j \in DOMAIN selection[g].nodes :
                    LET old == selection[g].nodes[j]
                        new == selection'[g].nodes[j]
                    IN  /\ new # null
                        /\ old # null => new = old
                        /\ old = null =>
                             /\ enter[g].nodes[j] # <<>>
                             /\ new \notin attached(childNodes)
                             /\ new \in attached(childNodes')
                             /\ \A h \in DOMAIN selection : \A k \in DOMAIN selection[h].nodes :
                                  selection'[h].nodes[k] = new => h = g /\ k = j]_vars

\* After a join by key that matched the only circle of a section to the
\* second of two data, enter.append has filled the first slot of update: the
\* new element comes first in the selection and last in the section.
C15_Witness ==
    /\ lastOp.op = "enter.append"
    /\ \E g \in DOMAIN selection :
         /\ selection[g].parentNode \in Sections
         /\ Len(selection[g].nodes) = 2
         /\ childNodes[selection[g].parentNode]
              = <<selection[g].nodes[2], selection[g].nodes[1]>>

\* C16: the element that enter.append or enter.insert creates for the
\* placeholder at position j of a group is, when the call returns, a child
\* of the group's parentNode and of no other element, and is bound to the
\* datum of the placeholder, which right after the join is newData[j].
C16_EnteredUnderParent ==
    [][lastOp'.op \in {"enter.append", "enter.insert"} =>
          \A g \in DOMAIN enter : \A j \in placed(enter[g].nodes) :
              LET new == selection'[g].nodes[j]
              IN  /\ new \in Range(childNodes'[enter[g].parentNode])
                  /\ \A p \in DOMAIN childNodes :
                       new \in Range(childNodes'[p]) => p = enter[g].parentNode
                  /\ enter[g].parentNode = selection[g].parentNode
                  /\ __data__'[new] = enter[g].nodes[j][1]
                  /\ Joined => __data__'[new] = newData[j]]_vars

\* d3.selectAll("section").selectAll("circle").data(values).enter().append:
\* a circle created in each of the two sections, bound to the datum.
C16_Witness ==
    /\ lastOp.op = "enter.append"
    /\ Len(selection) = 2
    /\ \A g \in DOMAIN selection :
         /\ selection[g].parentNode = g
         /\ selection[g].nodes # <<>>
         /\ selection[g].nodes = childNodes[g]
         /\ \A x \in Range(selection[g].nodes) : __data__[x] \in Letters

\* The index of x among the children.
indexIn(children, x) == CHOOSE i \in DOMAIN children : children[i] = x
\* The elements created for the placeholders of group g stand among the
\* children of the group's parent in the order of their placeholders.
EnteredInDataOrder(g) ==
    \A j, k \in placed(enter[g].nodes) : j < k =>
        indexIn(childNodes'[enter[g].parentNode], selection'[g].nodes[j])
          < indexIn(childNodes'[enter[g].parentNode], selection'[g].nodes[k])
\* The elements of update group g are children of the group's parent and
\* stand among them in the order of the update group.
UpdateInDocumentOrder(g) ==
    LET parent == selection[g].parentNode
    IN  /\ \A j \in filled(selection[g].nodes) :
             selection[g].nodes[j] \in Range(childNodes[parent])
        /\ \A j, k \in filled(selection[g].nodes) : j < k =>
             indexIn(childNodes[parent], selection[g].nodes[j])
               < indexIn(childNodes[parent], selection[g].nodes[k])

C18_JoinKeepsDocument ==
    [][lastOp'.op = "data" =>
          /\ childNodes' = childNodes
          /\ DOMAIN __data__' = DOMAIN __data__
          /\ \A x \in DOMAIN __data__ :
               __data__'[x] # __data__[x] => x \in nodesOf(selection')]_vars

\* A join by key that puts the two circles of a section in update in the
\* reverse of their order in the document, and binds a new datum to one.
C18_Witness ==
    /\ Joined
    /\ lastOp.key = "name"
    /\ \E g \in Groups :
         /\ Len(updateNodes(g)) = 2
         /\ null \notin Range(updateNodes(g))
         /\ childNodes[selection[g].parentNode] = <<updateNodes(g)[2], updateNodes(g)[1]>>
         /\ \E j \in 1..2 : joined.data[updateNodes(g)[j]] # __data__[updateNodes(g)[j]]

\* C19: exit.remove takes every element of the exit selection, and no other
\* element, out of the children of its parent, the order of the others kept;
\* the removed elements lose their datum and the others keep theirs; the
\* update selection is as it was and its elements stay in the document;
\* selecting the circles of any parent afterwards finds no removed element.
C19_ExitRemoveDetaches ==
    [][lastOp'.op = "exit.remove" =>
          LET gone == nodesOf(exit)
              Stays(x) == x \notin gone
          IN  /\ \A p \in DOMAIN childNodes :
                   /\ childNodes'[p] = SelectSeq(childNodes[p], Stays)
                   /\ Range(querySelectorAll(childNodes', p, "circle")) \cap gone = {}
              /\ gone \cap attached(childNodes) # {} => childNodes' # childNodes
              /\ \A x \in DOMAIN __data__ :
                   __data__'[x] = IF x \in gone THEN undefined ELSE __data__[x]
              /\ selection' = selection
              /\ nodesOf(selection) \cap gone = {}
              /\ nodesOf(selection) \cap attached(childNodes)
                   \subseteq attached(childNodes')]_vars

\* After a join of two circles to one datum and exit.remove, the circle in
\* update is the only child left of its parent and is bound to the datum.
C19_Witness ==
    /\ lastOp.op = "exit.remove"
    /\ \E g \in DOMAIN selection :
         /\ Len(selection[g].nodes) = 1
         /\ selection[g].nodes[1] # null
         /\ childNodes[selection[g].parentNode] = selection[g].nodes
         /\ __data__[selection[g].nodes[1]] \in Letters
         /\ \E x \in circlesOf(__data__) : x \notin attached(childNodes)

\* C20: a call of selection.data in which the key function throws, on the
\* datum of an old element or on a new datum, returns nothing: the script
\* holds the selection it had, and no update, enter or exit selection of the
\* call.  A call that returned its selections threw on no old datum and on
\* no new datum.
C20_KeyThrowsNoResult ==
    [][lastOp'.op = "data" =>
          IF lastOp'.threw
          THEN /\ lastOp'.key = "name"
               /\ selection' = selection
               /\ enter' = enter
               /\ exit' = exit
               /\ joined' = joined
          ELSE lastOp'.key = "name" =>
                  /\ \A x \in nodesOf(joined'.groups) : ~nameThrows(__data__[x])
                  /\ \A j \in DOMAIN lastOp'.data : ~nameThrows(lastOp'.data[j])]_vars

\* A join by key of elements that are all bound to data has thrown, on a
\* new datum: the script holds the selection it had, with nothing hanging
\* off it.
C20_Witness ==
    /\ lastOp.op = "data"
    /\ lastOp.threw
    /\ nodesOf(selection) # {}
    /\ \A x \in nodesOf(selection) : ~nameThrows(__data__[x])
    /\ enter = <<>>
    /\ exit = <<>>

\* Element i of group g has the key of an earlier element of the group.
LaterDuplicate(g, i) ==
    \E h \in filled(oldNodes(g)) :
        h < i /\ oldKey(oldNodes(g)[h]) = oldKey(oldNodes(g)[i])

\* C23: in a join by key, an old element that has the key of an earlier
\* element of its group is in exit, at its old index, and not in update; the
\* first element with a key is in update when a datum has the key and in
\* exit, at its old index, when none has; so every old element is in one of
\* the two, and exit keeps the old order.
C23_DuplicateOldKeys ==
    Joined /\ lastOp.key = "name" => \A g \in Groups :
        LET newKeys == {name(newData[j]) : j \in 1..Len(newData)}
        IN  /\ Len(exitNodes(g)) = Len(oldNodes(g))
            /\ \A i \in filled(oldNodes(g)) :
                 LET x == oldNodes(g)[i]
                 IN  IF LaterDuplicate(g, i) \/ oldKey(x) \notin newKeys
                     THEN exitNodes(g)[i] = x /\ x \notin Range(updateNodes(g))
                     ELSE exitNodes(g)[i] = null /\ x \in Range(updateNodes(g))

\* Two circles with one key joined by key to a datum with that key: the
\* first updates, the second exits.
C23_Witness ==
    /\ Joined
    /\ lastOp.key = "name"
    /\ \E g \in Groups :
         /\ Len(oldNodes(g)) = 2
         /\ AllElements(g)
         /\ oldKey(oldNodes(g)[1]) = oldKey(oldNodes(g)[2])
         /\ oldNodes(g)[1] \in Range(updateNodes(g))
         /\ exitNodes(g) = <<null, oldNodes(g)[2]>>

\* Datum j has the key of an earlier datum.
LaterDuplicateDatum(j) ==
    \E h \in 1..(j - 1) : name(newData[h]) = name(newData[j])

\* C24: a join by key to data that share a key returns; every datum that
\* has the key of an earlier datum is a placeholder in enter at its own
\* position, and the first datum with a key gets the first old element of
\* the group with that key when there is one, and is a placeholder when
\* there is none.
C24_DuplicateNewKeys ==
    Joined /\ lastOp.key = "name" => \A g \in Groups : \A j \in 1..Len(newData) :
        LET having == {i \in filled(oldNodes(g)) :
                          oldKey(oldNodes(g)[i]) = name(newData[j])}
        IN  IF LaterDuplicateDatum(j) \/ having = {}
            THEN updateNodes(g)[j] = null /\ enterNodes(g)[j] = <<newData[j]>>
            ELSE /\ enterNodes(g)[j] = <<>>
                 /\ \E i \in having :
                      /\ updateNodes(g)[j] = oldNodes(g)[i]
                      /\ \A h \in having : i <= h

\* A circle joined by key to two data with its key: the circle is bound to
\* the first, the second enters.
C24_Witness ==
    /\ Joined
    /\ lastOp.key = "name"
    /\ Len(newData) = 2
    /\ name(newData[1]) = name(newData[2])
    /\ newData[1] # newData[2]
    /\ \E g \in Groups :
         /\ updateNodes(g)[1] # null
         /\ __data__[updateNodes(g)[1]] = newData[1]
         /\ enterNodes(g) = << <<>>, <<newData[2]>> >>

\* C30: in the update group of every joined group no element stands at two
\* positions, and the filled positions number no more than the old elements
\* of the group and no more than the data.
C30_ConsumedOnce ==
    Joined => \A g \in Groups :
        /\ \A j, k \in filled(updateNodes(g)) :
             updateNodes(g)[j] = updateNodes(g)[k] => j = k
        /\ Cardinality(filled(updateNodes(g)))
             = Cardinality(Range(updateNodes(g)) \ {null})
        /\ Range(updateNodes(g)) \ {null} \subseteq Range(oldNodes(g))
        /\ Cardinality(filled(updateNodes(g))) <= Len(oldNodes(g))
        /\ Cardinality(filled(updateNodes(g))) <= Len(newData)

\* One circle joined by key to two data that both have its key: it stands
\* at one position of update.
C30_Witness ==
    /\ Joined
    /\ lastOp.key = "name"
    /\ Len(newData) = 2
    /\ name(newData[1]) = name(newData[2])
    /\ \E g \in Groups :
         /\ Len(oldNodes(g)) = 1
         /\ updateNodes(g) = <<oldNodes(g)[1], null>>

\* C22: d3.select, d3.selectAll and selection.selectAll leave the datum of
\* every element of the document as it was, and select elements of the
\* document only: the elements of the new selection have the data they were
\* last bound to.
C22_SelectingKeepsData ==
    [][
        lastOp'.op \in {"d3.select", "d3.selectAll", "selectAll"} =>
            (/\ \A x \in attached(childNodes) : __data__'[x] = __data__[x]
             /\ nodesOf(selection') \subseteq attached(childNodes)
             /\ childNodes' = childNodes)
    ]_vars

\* Circles selected again after a join bound one of them to a letter B,
\* which only a join binds.
C22_Witness ==
    /\ lastOp.op \in {"d3.selectAll", "selectAll"}
    /\ \E x \in nodesOf(selection) : x \notin Sections /\ name(__data__[x]) = "B"

\* s is the beginning of t.
IsPrefix(s, t) == Len(s) <= Len(t) /\ SubSeq(t, 1, Len(s)) = s

\* C27: after a join by index, enter.append and enter.insert add the new
\* elements after every child their parent had, and exit.remove removes
\* the elements of each group that stood after the last datum, which in a
\* group made by selectAll are the last children of the parent.
C27_IndexJoinAtTheEnd ==
    [][
        (Joined /\ lastOp.key = "index") =>
            (/\ (lastOp'.op \in {"enter.append", "enter.insert"}) =>
                    (\A p \in DOMAIN childNodes : IsPrefix(childNodes[p], childNodes'[p]))
             /\ (lastOp'.op = "exit.remove") =>
                    (/\ \A g \in Groups : \A i \in filled(oldNodes(g)) :
                           (oldNodes(g)[i] \notin attached(childNodes')) <=> (i > Len(newData))
                     /\ \A g \in Groups : joined.groups[g].parentNode \in Sections =>
                           IsPrefix(childNodes'[joined.groups[g].parentNode],
                                    childNodes[joined.groups[g].parentNode])))
    ]_vars

\* The only circle of a section joined by index to two data: the second
\* datum waits in enter, to be added after the circle.
C27_Witness ==
    /\ Joined
    /\ lastOp.key = "index"
    /\ Len(newData) = 2
    /\ \E g \in Groups :
         /\ selection[g].parentNode \in Sections
         /\ Len(oldNodes(g)) = 1
         /\ childNodes[selection[g].parentNode] = oldNodes(g)
         /\ updateNodes(g) = <<oldNodes(g)[1], null>>
         /\ enterNodes(g)[2] = <<newData[2]>>

\* The parent of an element of the document.
parentOf(x) == CHOOSE p \in DOMAIN childNodes : x \in Range(childNodes[p])

\* C28 as stated: every element of every group of the selection is a child
\* of the group's parentNode.
C28_SlotParentIsGroupParent ==
    \A g \in DOMAIN selection : \A x \in Range(selection[g].nodes) \ {null} :
        x \in attached(childNodes) /\ parentOf(x) = selection[g].parentNode

\* C28: the parentNode of a group is the document or an element; after
\* selectAll it is an element, and the elements of a group whose parentNode
\* is an element are children of it, through the join and enter.append,
\* enter.insert and exit.remove.  A group whose parentNode is the document
\* (d3.select, d3.selectAll, and select, append, insert on them) holds
\* elements whose parents may be other elements.
C28_RegroupedSlotParent ==
    /\ \A g \in DOMAIN selection : selection[g].parentNode \in {document} \cup Sections
    /\ lastOp.op = "selectAll" =>
         \A g \in DOMAIN selection : selection[g].parentNode \in Sections
    /\ \A g \in DOMAIN selection : selection[g].parentNode \in Sections =>
         \A x \in Range(selection[g].nodes) \ {null} :
             x \in attached(childNodes) /\ parentOf(x) = selection[g].parentNode

\* The circles of the second section, selected with selectAll, after
\* enter.append added one to them.
C28_Witness ==
    /\ lastOp.op = "enter.append"
    /\ \E g \in DOMAIN selection :
         /\ selection[g].parentNode = 2
         /\ selection[g].nodes # <<>>
         /\ null \notin Range(selection[g].nodes)

\* The state right after a run of the update pattern that returned.
Updated == lastOp.op = "update" /\ ~lastOp.threw

\* C21: after every run of the update pattern on new data, the circles of
\* the parent are the elements of the selection, as many as the data, all
\* different, the one at position j bound to the datum at position j.
C21_CycleOneToOne ==
    Updated =>
        LET D == lastOp.data
            parent == selection[1].parentNode
            circles == querySelectorAll(childNodes, parent, "circle")
            nodes == selection[1].nodes
        IN  /\ Len(circles) = Len(D)
            /\ Len(nodes) = Len(D)
            /\ Range(nodes) = Range(circles)
            /\ \A j, k \in DOMAIN nodes : nodes[j] = nodes[k] => j = k
            /\ \A j \in DOMAIN nodes : nodes[j] # null /\ __data__[nodes[j]] = D[j]

\* Four circles updated to two data: two circles are left, bound to the two
\* data; one is the fourth circle the page made, so that it held four.
C21_Witness ==
    /\ Updated
    /\ Len(lastOp.data) = 2
    /\ Len(childNodes[1]) = 2
    /\ 6 \in Range(childNodes[1])
    /\ \A j \in 1..2 : __data__[selection[1].nodes[j]] = lastOp.data[j]

\* The state right after a call of selection.data with a data function.
FunctionJoined == lastOp.op = "data.function"

\* C25: a join to a data function records one call for each group, in the
\* order of the groups, with the datum of the group's parentNode and the
\* group's index; the group is joined by index to the array that call
\* returned, and its elements are bound to that array.  A join to an array
\* joins every group to the array.
C25_DataPerGroup ==
    /\ FunctionJoined =>
         /\ Len(lastOp.data) = Len(joined.groups)
         /\ \A g \in Groups :
              LET c == lastOp.data[g]
              IN  /\ c.datum = parentDatum(joined.data, joined.groups[g].parentNode)
                  /\ c.index = g - 1
                  /\ c.values = call(c.fn, c.datum, c.index)
                  /\ [update |-> updateNodes(g), enter |-> enterNodes(g),
                      exit |-> exitNodes(g)] = bindIndex(oldNodes(g), c.values)
                  /\ \A j \in filled(updateNodes(g)) :
                       __data__[updateNodes(g)[j]] = c.values[j]
    /\ Joined =>
         \A g \in Groups :
             /\ Len(updateNodes(g)) = Len(newData)
             /\ Len(enterNodes(g)) = Len(newData)
             /\ \A j \in filled(updateNodes(g)) : __data__[updateNodes(g)[j]] = newData[j]
             /\ \A j \in placed(enterNodes(g)) : enterNodes(g)[j] = <<newData[j]>>

\* The circles of two sections joined to letters.slice(i): the first group
\* is joined to two letters and the second to the last of them, to which
\* its circle is bound.
C25_Witness ==
    /\ FunctionJoined
    /\ Len(joined.groups) = 2
    /\ lastOp.data[1].values = letters
    /\ lastOp.data[2].values = <<letters[2]>>
    /\ lastOp.data[2].index = 1
    /\ updateNodes(2) # <<null>>
    /\ __data__[updateNodes(2)[1]] = letters[2]

\* After the step, the elements of group g of the selection stand among the
\* children of the group's parent in the order of the selection.
MergedInDocumentOrder(g) ==
    LET parent == selection'[g].parentNode
        nodes == selection'[g].nodes
    IN  /\ \A j \in filled(nodes) : nodes[j] \in Range(childNodes'[parent])
        /\ \A j, k \in filled(nodes) : j < k =>
             indexIn(childNodes'[parent], nodes[j]) < indexIn(childNodes'[parent], nodes[k])

\* After the step, the element created for the placeholder at index j of
\* group g stands before the update element that follows the placeholder,
\* with no update element of the group between them, and after every update
\* element of the group when none follows.
BeforeNextSibling(g, j) ==
    LET parent == enter[g].parentNode
        kids == childNodes'[parent]
        new == selection'[g].nodes[j]
        next == nextSibling(selection[g].nodes, j)
        updates == {selection[g].nodes[k] : k \in filled(selection[g].nodes)}
    IN  /\ new \in Range(kids)
        /\ new \notin Range(childNodes[parent])
        /\ IF next = null
           THEN \A x \in updates : indexIn(kids, x) < indexIn(kids, new)
           ELSE /\ indexIn(kids, new) < indexIn(kids, next)
                /\ \A x \in updates : ~(/\ indexIn(kids, new) < indexIn(kids, x)
                                          /\ indexIn(kids, x) < indexIn(kids, next))

\* C26 as stated: enter.append and enter.insert leave the elements of the
\* selection in the order of the data among the children of their parent
\* when the elements of the update selection stood in that order.
C26_MaterializedInDataOrder ==
    [][lastOp'.op \in {"enter.append", "enter.insert"} =>
          \A g \in DOMAIN enter : UpdateInDocumentOrder(g) => MergedInDocumentOrder(g)]_vars

\* C26, amended: enter.insert puts each new element among the children of
\* the group's parent before the update element that follows its
\* placeholder, and last when none follows; when the elements of the update
\* selection stood in the order of the selection, the elements of the
\* selection then stand in the order of the data.  enter.append puts the
\* new elements after every child the parent had.
C26_InsertInDataOrder ==
    [][/\ lastOp'.op = "enter.insert" =>
            (\A g \in DOMAIN enter :
                /\ \A j \in placed(enter[g].nodes) :
                     UpdateInDocumentOrder(g) => BeforeNextSibling(g, j)
                /\ UpdateInDocumentOrder(g) => MergedInDocumentOrder(g))
       /\ lastOp'.op = "enter.append" =>
            (\A g \in DOMAIN enter :
                LET parent == enter[g].parentNode
                IN  /\ IsPrefix(childNodes[parent], childNodes'[parent])
                    /\ \A j \in placed(enter[g].nodes) :
                         selection'[g].nodes[j] \in Range(childNodes'[parent])
                                                   \ Range(childNodes[parent]))
      ]_vars

\* Two bars joined by key to three letters, the second letter new:
\* enter.insert has put the new bar between the two, and the children of the
\* section are the selection.
C26_Witness ==
    /\ lastOp.op = "enter.insert"
    /\ Len(selection) = 1
    /\ Len(selection[1].nodes) = 3
    /\ selection[1].nodes[1] = 3
    /\ selection[1].nodes[3] = 4
    /\ childNodes[1] = selection[1].nodes

\* The join that has just ended threw.
Threw == lastOp'.op = "data" /\ lastOp'.threw

====
